---- MODULE Spec2Model ----
(***************************************************************************)
(* The IPO subscription-calendar feed builders of ipo-calender.            *)
(*                                                                         *)
(* The repository holds several rewrites of one pipeline.  Each is a       *)
(* "variant" here:                                                         *)
(*   token    src/unnamed/part_000            token scan, registry filter  *)
(*   line     src/unnamed/part_002            line scan, registry filter   *)
(*   rendered src/scripts/update-ipo.mjs:201  rendered text, rights lines  *)
(*   classify src/scripts/update-ipo.js:1     anchor scan, filing classes  *)
(*   onlyGi   src/scripts/update-ipo.js:590   anchor scan, keep market G   *)
(*   markets  src/unnamed/part_001:1          anchor scan, --markets       *)
(*                                                                         *)
(* A month page is modelled by the sequence of sightings its extractor     *)
(* recognises, in document order: (day cursor, market code, company name,  *)
(* boundary word).  Market codes are written K (KOSDAQ), G (other          *)
(* corporation); boundary words are "start" and "end".  Company names are  *)
(* small integers ordered the way localeCompare orders the names.  An ISO  *)
(* date string YYYY-MM-DD is the integer YYYYMMDD, whose order is the      *)
(* string order of the zero-padded text.                                   *)
(***************************************************************************)
EXTENDS Integers, Sequences, FiniteSets, TLC

\* ------------------------------------------------------------------ bounds
MaxEvents == 2        \* sightings delivered over the whole run
MaxMergeEvents == 3   \* length of the event list handed to mergeEventsToItems alone
MaxPhrases == 2       \* phrases of a filing text handed to classifyRcpNo alone
MaxScore == 3         \* event patterns found in one decoding of a buffer
MaxPieces == 6       \* pieces of body text handed to the token scan alone
MaxUniqItems == 3    \* length of the list handed to uniqByCompanyKeepEarliest alone
MaxModeItems == 3    \* merged records handed to the classification loop alone
MaxReloads == 3      \* clicks on the reload button of the page
MaxExports == 2      \* clicks on the export buttons of the page

Names == {1, 2}
Markets == {"K", "G"}
Marks == {"start", "end"}
Days == {1, 2, 3}
RcpNos == {"", "r1"}          \* "" : the link carries no 14-digit rcpNo

ItemVariants == {"token", "line", "rendered"}
EventVariants == {"classify", "onlyGi", "markets"}
Variants == ItemVariants \cup EventVariants
Modes == {"ipo", "exrights", "all"}

NoDay == 0            \* curDay = null: no day marker met yet
NoDate == 0           \* null sbd_start / sbd_end
EmptyName == 0        \* the corp_name "": what is left of a name of white space only

\* ------------------------------------------------------------------ dates
\* `${y}-${pad2(m)}-${pad2(d)}`: two decimal digits for the month and for the day
toISODate(y, m, d) == (y * 100 + m) * 100 + d
YearOf(iso) == iso \div 10000
MonthOf(iso) == (iso \div 100) % 100

IsLeap(y) == (y % 4 = 0 /\ y % 100 # 0) \/ y % 400 = 0
DaysInMonth(y, m) ==
  IF m = 2 THEN (IF IsLeap(y) THEN 29 ELSE 28)
  ELSE IF m \in {4, 6, 9, 11} THEN 30 ELSE 31

\* new Date(Date.UTC(y, m + 2, 0)): the last day of the month after today's
endOfNextMonth(today) ==
  LET y == YearOf(today)
      m == MonthOf(today)
      ny == IF m = 12 THEN y + 1 ELSE y
      nm == IF m = 12 THEN 1 ELSE m + 1
  IN toISODate(ny, nm, DaysInMonth(ny, nm))

\* the (year, month) pairs from the month of start to the month of end
RECURSIVE monthsFrom(_, _, _, _)
monthsFrom(y, m, ey, em) ==
  IF y < ey \/ (y = ey /\ m <= em)
  THEN <<[y |-> y, m |-> m]>> \o
       (IF m = 12 THEN monthsFrom(y + 1, 1, ey, em) ELSE monthsFrom(y, m + 1, ey, em))
  ELSE <<>>
monthsBetween(startISO, endISO) ==
  monthsFrom(YearOf(startISO), MonthOf(startISO), YearOf(endISO), MonthOf(endISO))

\* ----------------------------------------------------------- sequence helpers
RECURSIVE SelectIdx(_, _)
\* the elements of s at the positions in keep, in order
SelectIdx(s, keep) ==
  IF s = <<>> THEN <<>>
  ELSE (IF 1 \in keep THEN <<Head(s)>> ELSE <<>>) \o
       SelectIdx(Tail(s), {i - 1 : i \in keep \ {1}})

Range(s) == {s[i] : i \in DOMAIN s}
MinOf(S) == CHOOSE x \in S : \A z \in S : x <= z
MaxOf(S) == CHOOSE x \in S : \A z \in S : x >= z
FirstIdx(s, P(_)) ==
  IF \E i \in DOMAIN s : P(s[i]) THEN MinOf({i \in DOMAIN s : P(s[i])}) ELSE 0

\* ------------------------------------------------------------------ records
NewItem(name, ms) ==
  [corp_name |-> name, market_short |-> ms, sbd_start |-> NoDate,
   sbd_end |-> NoDate, rcp |-> "", offer_type |-> ""]

\* a sighting on a month page, as the extractor's pattern sees it
Sightings(v, days, names) ==
  [day : days, ms : Markets, name : names, which : Marks,
   rcp : IF v = "classify" THEN RcpNos ELSE {""},
   rights : IF v = "rendered" THEN BOOLEAN ELSE {FALSE}]
\* the pages of at most k sightings
Pages(v, k, days, names) == UNION {[1..n -> Sightings(v, days, names)] : n \in 0..k}

\* --------------------------------------------- item extractors (per month)
\* one pass of the loop body that files a sighting under its company name:
\* map.get(name) || {...}; the boundary's date is assigned, the last one wins.
\* A sighting without name characters files nothing (nameParts.length; !name).
fileSighting(map, s, date) ==
  IF s.name = EmptyName THEN map ELSE
  LET idx == FirstIdx(map, LAMBDA it : it.corp_name = s.name)
      item == IF idx = 0 THEN NewItem(s.name, s.ms) ELSE map[idx]
      dated == IF s.which = "start" THEN [item EXCEPT !.sbd_start = date]
               ELSE [item EXCEPT !.sbd_end = date]
      linked == IF s.rcp # "" THEN [dated EXCEPT !.rcp = s.rcp] ELSE dated
  IN IF idx = 0 THEN Append(map, linked) ELSE [map EXCEPT ![idx] = linked]

RECURSIVE fileSightings(_, _, _, _)
fileSightings(page, y, m, map) ==
  IF page = <<>> THEN map
  ELSE fileSightings(Tail(page), y, m,
                     fileSighting(map, Head(page), toISODate(y, m, Head(page).day)))

\* if (!it.sbd_start && it.sbd_end) ...; if (!it.sbd_end && it.sbd_start) ...
imputeItem(it) ==
  LET a == IF it.sbd_start = NoDate /\ it.sbd_end # NoDate
           THEN [it EXCEPT !.sbd_start = it.sbd_end] ELSE it
  IN IF a.sbd_end = NoDate /\ a.sbd_start # NoDate
     THEN [a EXCEPT !.sbd_end = a.sbd_start] ELSE a

\* part_000: token scan, no imputation
parseDartCalendar(page, y, m) == fileSightings(page, y, m, <<>>)

\* part_002: line scan, a missing boundary is imputed from the other
parseDartCalendarLines(page, y, m) ==
  LET map == fileSightings(page, y, m, <<>>)
  IN [i \in DOMAIN map |-> imputeItem(map[i])]

\* update-ipo.mjs: rendered text; a line that looks like a rights issue is skipped
parseDartCalendarFromTextAndHtml(page, y, m) ==
  LET lines == SelectIdx(page, {i \in DOMAIN page : ~page[i].rights})
      map == fileSightings(lines, y, m, <<>>)
  IN [i \in DOMAIN map |-> imputeItem(map[i])]

\* ------------------------------------------- the token scan, token by token
\* text.split(/\s+/): day numbers as the calendar prints them ("2" then "02"),
\* a market code, a word of a company name, the two boundary words
CodeToken == "K"
NameToken == "N"
StartToken == "[start]"
EndToken == "[end]"
\* the pieces a body text is made of: the day cell of day 1 and of day 2, and
\* the single tokens
Pieces ==
  {<<"1", "01">>, <<"2", "02">>, <<CodeToken>>, <<NameToken>>, <<StartToken>>, <<EndToken>>}
RECURSIVE Concat(_)
Concat(ps) == IF ps = <<>> THEN <<>> ELSE Head(ps) \o Concat(Tail(ps))
TokenStreams(k) == {Concat(ps) : ps \in UNION {[1..n -> Pieces] : n \in 0..k}}

\* /^\d{1,2}$/.test(t)
isDayNum(t) == t \in {"1", "01", "2", "02"}
\* /^\d{2}$/.test(t)
isDay2(t) == t \in {"01", "02"}
\* Number(t) of a token of digits
Number(t) == IF t \in {"1", "01"} THEN 1 ELSE 2

\* isDayNum(tok) && tokens[j + 1] && isDay2(tokens[j + 1])
dayPatternAt(toks, j) ==
  j + 1 <= Len(toks) /\ isDayNum(toks[j]) /\ isDay2(toks[j + 1])
\* ... and Number(tokens[i + 1]) === d && d >= 1 && d <= 31
dayMarkerAt(toks, p) ==
  /\ dayPatternAt(toks, p)
  /\ Number(toks[p + 1]) = Number(toks[p])
  /\ Number(toks[p]) >= 1 /\ Number(toks[p]) <= 31

\* nameScan running through day cells up to the next boundary word
RECURSIVE nameScan_ThroughDays(_, _)
nameScan_ThroughDays(toks, j) ==
  IF j > Len(toks) THEN j
  ELSE IF toks[j] \in {StartToken, EndToken} THEN j
  ELSE nameScan_ThroughDays(toks, j + 1)

RECURSIVE nameScan(_, _)
\* while (j < tokens.length): break at a boundary word, break at a day
\* pattern, else the token is a part of the name.  The result is j.
nameScan(toks, j) ==
  IF j > Len(toks) THEN j
  ELSE IF toks[j] \in {StartToken, EndToken} THEN j
  ELSE IF dayPatternAt(toks, j) THEN j
  ELSE nameScan(toks, j + 1)

\* the loop body at a market code: the name scan, the boundary word at its end,
\* the record filed under the name (the last boundary met wins), i = j
scanCode(toks, p, day, map) ==
  LET j == nameScan(toks, p + 1)
      nameParts == SubSeq(toks, p + 1, j - 1)
      which == IF j <= Len(toks) THEN toks[j] ELSE ""
      files == which \in {StartToken, EndToken} /\ day # NoDay /\ nameParts # <<>>
      idx == FirstIdx(map, LAMBDA it : it.corp_name = nameParts)
      item == IF idx = 0 THEN NewItem(nameParts, toks[p]) ELSE map[idx]
      date == toISODate(2026, 3, day)
      dated == IF which = StartToken THEN [item EXCEPT !.sbd_start = date]
               ELSE [item EXCEPT !.sbd_end = date]
  IN [j |-> j, filed |-> files,
      map |-> IF ~files THEN map
              ELSE IF idx = 0 THEN Append(map, dated) ELSE [map EXCEPT ![idx] = dated]]

\* ----------------------------------------------------------- decoding
\* the charset labels of a content-type header, lower case; "" is no charset
Charsets == {"", "utf-8", "euc-kr", "ks_c_5601-1987", "ksc5601", "iso-8859-1"}

\* String.prototype.includes on the labels above
includes(cs, part) ==
  <<cs, part>> \in {<<"euc-kr", "euc-kr">>, <<"euc-kr", "euc">>,
                    <<"ks_c_5601-1987", "ks_c_5601">>,
                    <<"ksc5601", "ksc5601">>, <<"ksc5601", "ksc">>}

\* a response body: the number of event patterns its bytes show when read as
\* UTF-8 and when read as EUC-KR
Buffers == [utf8 : 0..MaxScore, euckr : 0..MaxScore]

\* the text a buffer decodes to: the encoding it was read with
decodeByCharset(buffer, charset) ==
  IF includes(charset, "euc-kr") \/ includes(charset, "ks_c_5601")
     \/ includes(charset, "ksc5601")
  THEN "euc-kr" ELSE "utf-8"

\* (html.match(EVENT_RE_LOOSE) || []).length of a decoding of the buffer
scoreForEvents(buffer, html) == IF html = "euc-kr" THEN buffer.euckr ELSE buffer.utf8

\* pickBestDecodedHTML taking the alternate on a tie
pickBestDecodedHTML_TieToAlt(buffer, headerCS) ==
  LET primary == decodeByCharset(buffer, IF headerCS = "" THEN "utf-8" ELSE headerCS)
      primaryScore == scoreForEvents(buffer, primary)
      altCS == IF includes(headerCS, "euc") \/ includes(headerCS, "ksc")
               THEN "utf-8" ELSE "euc-kr"
      alt == decodeByCharset(buffer, altCS)
      altScore == scoreForEvents(buffer, alt)
  IN IF altScore >= primaryScore
     THEN [html |-> alt, picked |-> altCS, score |-> altScore, altScore |-> primaryScore]
     ELSE [html |-> primary, picked |-> IF headerCS = "" THEN "utf-8" ELSE headerCS,
           score |-> primaryScore, altScore |-> altScore]

pickBestDecodedHTML(buffer, headerCS) ==
  LET primary == decodeByCharset(buffer, IF headerCS = "" THEN "utf-8" ELSE headerCS)
      primaryScore == scoreForEvents(buffer, primary)
      altCS == IF includes(headerCS, "euc") \/ includes(headerCS, "ksc")
               THEN "utf-8" ELSE "euc-kr"
      alt == decodeByCharset(buffer, altCS)
      altScore == scoreForEvents(buffer, alt)
  IN IF altScore > primaryScore
     THEN [html |-> alt, picked |-> altCS, score |-> altScore, altScore |-> primaryScore]
     ELSE [html |-> primary, picked |-> IF headerCS = "" THEN "utf-8" ELSE headerCS,
           score |-> primaryScore, altScore |-> altScore]

\* -------------------------------------------- event extractors (per month)
eventOf(s, y, m) ==
  [date |-> toISODate(y, m, s.day), market_short |-> s.ms, corp_name |-> s.name,
   mark |-> s.which, rcp |-> s.rcp]

RECURSIVE dedupEvents(_, _, _)
\* dedup.set(k, e) for each event, then [...dedup.values()]
dedupEvents(events, withHref, out) ==
  IF events = <<>> THEN out
  ELSE LET e == Head(events)
           same(o) == /\ o.date = e.date /\ o.market_short = e.market_short
                      /\ o.corp_name = e.corp_name /\ o.mark = e.mark
                      /\ (withHref => o.rcp = e.rcp)
           idx == FirstIdx(out, same)
       IN dedupEvents(Tail(events), withHref,
                      IF idx = 0 THEN Append(out, e) ELSE [out EXCEPT ![idx] = e])

\* whether the pattern of the variant matches the link text of the sighting.
\* /^(code)\s*([^[]+?)\s*\[...$/ lets the one space between the code and the
\* marker be the name; /^(code)\s+(.+?)\s*\[...\]\s*$/ needs a character after
\* the space.
matchesEVENT_RE(v, s) == v \in {"classify", "markets"} \/ s.name # EmptyName

parseCalendarMonth(v, page, y, m) ==
  LET matched == SelectIdx(page, {i \in DOMAIN page : matchesEVENT_RE(v, page[i])})
      events == [i \in DOMAIN matched |-> eventOf(matched[i], y, m)]
  IN CASE v = "classify" -> dedupEvents(events, TRUE, <<>>)
       [] v = "markets"  -> dedupEvents(events, FALSE, <<>>)
       [] OTHER          -> events

\* ------------------------------------------------------------ range filters
\* update-ipo.js: one event date against the window, as ISO strings
withinRange(dateISO, startISO, endISO) == dateISO >= startISO /\ dateISO <= endISO

\* withinRangeItem with the missing date read from the other one, as part_002 reads
\* it, in a pipeline whose extractor does not impute
withinRangeItem_EitherDate(item, startUTC, endUTC) ==
  LET sDate == IF item.sbd_start # NoDate THEN item.sbd_start ELSE item.sbd_end
      eDate == IF item.sbd_end # NoDate THEN item.sbd_end ELSE item.sbd_start
  IN IF sDate = NoDate \/ eDate = NoDate THEN FALSE
     ELSE eDate >= startUTC /\ sDate <= endUTC

\* new Date(iso + "T00:00:00Z"): a day past the end of its month (02-30) runs on
\* into the next month, as V8 reads it
utcDate(iso) ==
  LET y == YearOf(iso)
      m == MonthOf(iso)
      d == iso % 100
      dim == DaysInMonth(y, m)
  IN IF d <= dim THEN iso
     ELSE IF m = 12 THEN toISODate(y + 1, 1, d - dim) ELSE toISODate(y, m + 1, d - dim)

\* part_000, update-ipo.mjs: an item without both dates is out; else overlap.
\* The window's start is "now" and its end 23:59:59 of a day, the item runs from
\* 00:00:00 of its first day to 23:59:59 of its last: day granularity.
withinRangeItem(item, startUTC, endUTC) ==
  IF item.sbd_start = NoDate \/ item.sbd_end = NoDate THEN FALSE
  ELSE utcDate(item.sbd_end) >= startUTC /\ utcDate(item.sbd_start) <= endUTC

\* part_002: a missing date is read from the other one first
withinRangeItemEither(item, startUTC, endUTC) ==
  LET sDate == IF item.sbd_start # NoDate THEN item.sbd_start ELSE item.sbd_end
      eDate == IF item.sbd_end # NoDate THEN item.sbd_end ELSE item.sbd_start
  IN IF sDate = NoDate \/ eDate = NoDate THEN FALSE
     ELSE utcDate(eDate) >= startUTC /\ utcDate(sDate) <= endUTC

rangeFilter(v, all, startUTC, endUTC) ==
  SelectIdx(all, {i \in DOMAIN all :
                    IF v = "line" THEN withinRangeItemEither(all[i], startUTC, endUTC)
                    ELSE withinRangeItem(all[i], startUTC, endUTC)})

\* --------------------------------------------------------- registry
\* if (set.size < 500) throw
MinListed == 500
\* the sizes a parsed registry is tried with
RegistrySizes == {0, MinListed - 1, MinListed}

\* tooSmall letting a set one short of the minimum pass
tooSmall_OneShortPasses(size) == size < MinListed - 1

tooSmall(size) == size < MinListed

\* --------------------------------------------------------- registry filter
\* listedFilter without the filter
listedFilter_KeepsAll(all, listed) == [all |-> all, excluded_listed |-> 0]

\* before = all.length; all = all.filter(!listedSet.has(corp_name));
\* excluded_listed = before - all.length
listedFilter(all, listed) ==
  LET kept == SelectIdx(all, {i \in DOMAIN all : all[i].corp_name \notin listed})
  IN [all |-> kept, excluded_listed |-> Len(all) - Len(kept)]

\* -------------------------------------------------------------------- dedup
\* startOrLast with a missing start read as the earliest
startOrLast_NullFirst(it) == it.sbd_start

\* it.sbd_start || "9999"
startOrLast(it) == IF it.sbd_start = NoDate THEN 99990000 ELSE it.sbd_start

RECURSIVE uniqFold(_, _)
uniqFold(items, by) ==
  IF items = <<>> THEN by
  ELSE LET it == Head(items)
           idx == FirstIdx(by, LAMBDA o : o.corp_name = it.corp_name)
       IN uniqFold(Tail(items),
                   IF idx = 0 THEN Append(by, it)
                   ELSE IF startOrLast(it) < startOrLast(by[idx])
                        THEN [by EXCEPT ![idx] = it] ELSE by)
uniqByCompanyKeepEarliest(items) == uniqFold(items, <<>>)

\* --------------------------------------------------------------------- sort
\* Array.prototype.sort is stable; a null start compares as "" (first)
comesBefore(byName, a, b) ==
  \/ a.sbd_start < b.sbd_start
  \/ byName /\ a.sbd_start = b.sbd_start /\ a.corp_name < b.corp_name

insertStable(byName, sorted, x) ==
  LET idx == FirstIdx([i \in DOMAIN sorted |-> [i |-> i, it |-> sorted[i]]],
                      LAMBDA e : comesBefore(byName, x, e.it))
  IN IF idx = 0 THEN Append(sorted, x)
     ELSE SubSeq(sorted, 1, idx - 1) \o <<x>> \o SubSeq(sorted, idx, Len(sorted))

RECURSIVE sortStable(_, _, _)
sortStable(byName, items, sorted) ==
  IF items = <<>> THEN sorted
  ELSE sortStable(byName, Tail(items), insertStable(byName, sorted, Head(items)))

\* .sort((a, b) => (a.sbd_start || "").localeCompare(b.sbd_start || ""))
sortBySbdStart(items) == sortStable(FALSE, items, <<>>)
\* items.sort: sbd_start, then corp_name
sortByStartThenName(items) == sortStable(TRUE, items, <<>>)

\* -------------------------------------------------------------------- merge
\* mergeEvent assigning every boundary it meets: the last sighting wins
mergeEvent_LastWins(it, e) ==
  IF e.mark = "start" THEN [it EXCEPT !.sbd_start = e.date]
  ELSE [it EXCEPT !.sbd_end = e.date]

\* if (mark === START) { if (!start || date < start) start = date }
\* else if (mark === END) { if (!end || date > end) end = date }
mergeEvent(it, e) ==
  IF e.mark = "start"
  THEN (IF it.sbd_start = NoDate \/ e.date < it.sbd_start
        THEN [it EXCEPT !.sbd_start = e.date] ELSE it)
  ELSE (IF it.sbd_end = NoDate \/ e.date > it.sbd_end
        THEN [it EXCEPT !.sbd_end = e.date] ELSE it)

RECURSIVE mergeFold(_, _)
\* the map keyed `${market_short}||${corp_name}`, in insertion order
mergeFold(events, map) ==
  IF events = <<>> THEN map
  ELSE LET e == Head(events)
           idx == FirstIdx(map, LAMBDA o : o.market_short = e.market_short
                                           /\ o.corp_name = e.corp_name)
           it == IF idx = 0
                 THEN [corp_name |-> e.corp_name, market_short |-> e.market_short,
                       sbd_start |-> NoDate, sbd_end |-> NoDate, hrefs |-> <<>>]
                 ELSE map[idx]
           pushed == IF e.rcp # "" THEN [it EXCEPT !.hrefs = Append(it.hrefs, e.rcp)] ELSE it
           dated == mergeEvent(pushed, e)
       IN mergeFold(Tail(events),
                    IF idx = 0 THEN Append(map, dated) ELSE [map EXCEPT ![idx] = dated])

mergedItem(it) ==
  LET a == IF it.sbd_start # NoDate /\ it.sbd_end = NoDate
           THEN [it EXCEPT !.sbd_end = it.sbd_start] ELSE it
      b == IF a.sbd_start = NoDate /\ a.sbd_end # NoDate
           THEN [a EXCEPT !.sbd_start = a.sbd_end] ELSE a
  IN [corp_name |-> b.corp_name, market_short |-> b.market_short,
      sbd_start |-> b.sbd_start, sbd_end |-> b.sbd_end,
      rcp |-> IF b.hrefs = <<>> THEN "" ELSE Head(b.hrefs), offer_type |-> ""]

mergeEventsToItems(events) ==
  LET map == mergeFold(events, <<>>)
  IN sortByStartThenName([i \in DOMAIN map |-> mergedItem(map[i])])

\* ------------------------------------------------------------------ payload
NoFeed == [count |-> 0, excluded_listed |-> 0, excluded_non_ipo |-> 0, items |-> <<>>]

\* feedOf counting the list before the registry filter
feedOf_CountsBeforeRegistry(items, excluded) ==
  [count |-> Len(items) + excluded, excluded_listed |-> excluded,
   excluded_non_ipo |-> 0, items |-> items]

\* out = { ok, source, range, count: items.length, excluded_listed, items }
feedOf(items, excluded) ==
  [count |-> Len(items), excluded_listed |-> excluded, excluded_non_ipo |-> 0,
   items |-> items]

\* range filter, registry filter, dedup, sort and the feed object of an item variant
finishItems(v, all, startUTC, endUTC, listed) ==
  LET ranged == rangeFilter(v, all, startUTC, endUTC)
      reg == listedFilter(ranged, listed)
      uniq == uniqByCompanyKeepEarliest(reg.all)
  IN feedOf(sortBySbdStart(uniq), reg.excluded_listed)

rangedEvents(allEv, startISO, endISO) ==
  SelectIdx(allEv, {i \in DOMAIN allEv : withinRange(allEv[i].date, startISO, endISO)})

\* keep only market G; every other merged record counts as excluded_listed
finishOnlyGi(allEv, startISO, endISO) ==
  LET m == mergeEventsToItems(rangedEvents(allEv, startISO, endISO))
      kept == SelectIdx(m, {i \in DOMAIN m : m[i].market_short = "G"})
  IN feedOf(kept, Len(m) - Len(kept))

\* --markets: the events of the chosen market codes, merged (the payload has
\* no excluded_listed field: 0 stands for the missing field)
finishMarkets(allEv, startISO, endISO, mk) ==
  LET r == rangedEvents(allEv, startISO, endISO)
      f == SelectIdx(r, {i \in DOMAIN r : r[i].market_short \in mk})
  IN feedOf(mergeEventsToItems(f), 0)

\* ------------------------------------------------- classification and mode
\* payload = { ok, source, range, mode, count: classified.length, items: classified }
\* (the payload has no excluded_listed and no excluded_non_ipo field: 0 stands
\* for the missing field)
payload(classified) ==
  [count |-> Len(classified), excluded_listed |-> 0, excluded_non_ipo |-> 0,
   items |-> classified]

\* the keyword lists, in Latin transcription
\* 유상증자, 주주배정, 실권주, 신주인수권, 제3자배정, 제3자 배정,
\* 일반공모(유상증자), 주주우선공모
RIGHTS_KEYWORDS ==
  {"yusangjeungja", "jujubaejeong", "silgwonju", "sinjuinsugwon", "je3jabaejeong",
   "je3ja baejeong", "ilbangongmo(yusangjeungja)", "jujuuseongongmo"}
\* 신규상장, 상장예정, 상장 예정, 코스닥시장 상장, 유가증권시장 상장, 상장심사,
\* 예비상장, 대표주관회사, 공모가, 기관투자자 수요예측
IPO_KEYWORDS ==
  {"singyusangjang", "sangjangyejeong", "sangjang yejeong", "kosdaqsijang sangjang",
   "yugajeunggwonsijang sangjang", "sangjangsimsa", "yebisangjang",
   "daepyojugwanhoesa", "gongmoga", "gigwantujaja suyoyecheuk"}
\* a phrase of a filing that is no keyword
OtherPhrase == "bogoseo"
Phrases == RIGHTS_KEYWORDS \cup IPO_KEYWORDS \cup {OtherPhrase}

\* the text of a filing's viewer page: the phrases it contains, in order
Texts(phrases, k) == UNION {[1..n -> phrases] : n \in 0..k}
\* what the two fetches of classifyRcpNo meet: a fetch that throws, a dsaf001
\* page without viewDoc parameters, or a viewer page with its text
Filings(phrases, k) ==
  [fetch : {"ok", "throws"}, params : BOOLEAN, text : Texts(phrases, k)]

\* keywords.some((k) => t.includes(k))
includesAny(text, keywords) == \E i \in DOMAIN text : text[i] \in keywords

\* classifyRcpNo testing the new-listing keywords first
classifyRcpNo_IpoFirst(f) ==
  IF f.fetch = "throws" THEN [threw |-> TRUE, type |-> ""]
  ELSE IF ~f.params THEN [threw |-> FALSE, type |-> "unknown"]
  ELSE IF includesAny(f.text, IPO_KEYWORDS) THEN [threw |-> FALSE, type |-> "ipo"]
  ELSE IF includesAny(f.text, RIGHTS_KEYWORDS) THEN [threw |-> FALSE, type |-> "rights"]
  ELSE [threw |-> FALSE, type |-> "unknown"]

\* fetch dsaf001, extract the viewDoc parameters, fetch the viewer text, then
\* if (isRights) rights; if (isIpo) ipo; else unknown
classifyRcpNo(f) ==
  IF f.fetch = "throws" THEN [threw |-> TRUE, type |-> ""]
  ELSE IF ~f.params THEN [threw |-> FALSE, type |-> "unknown"]
  ELSE IF includesAny(f.text, RIGHTS_KEYWORDS) THEN [threw |-> FALSE, type |-> "rights"]
  ELSE IF includesAny(f.text, IPO_KEYWORDS) THEN [threw |-> FALSE, type |-> "ipo"]
  ELSE [threw |-> FALSE, type |-> "unknown"]

\* no --mode on the command line
NoModeArg == "absent"
ModeArgs == Modes \cup {NoModeArg}

\* modeOf falling back to exrights
modeOf_DefaultExrights(arg) == IF arg = NoModeArg THEN "exrights" ELSE arg

\* typeof args.mode === "string" ? String(args.mode).toLowerCase() : "ipo"
modeOf(arg) == IF arg = NoModeArg THEN "ipo" ELSE arg

\* modeKeeps with ipo keeping the rights issues as well
modeKeeps_IpoKeepsRights(md, type) ==
  IF md = "all" THEN TRUE
  ELSE IF md = "exrights" THEN type # "rights"
  ELSE type \in {"ipo", "rights"}

\* modeKeeps with exrights keeping every class
modeKeeps_ExrightsKeepsAll(md, type) == md \in {"all", "exrights"} \/ type = "ipo"

\* modeKeeps with exrights as strict as ipo
modeKeeps_ExrightsIpoOnly(md, type) == md = "all" \/ type = "ipo"

\* whether the mode keeps an item of this class
modeKeeps(md, type) ==
  IF md = "all" THEN TRUE
  ELSE IF md = "exrights" THEN type # "rights"
  ELSE type = "ipo"

RECURSIVE skipNoRcpNo(_, _, _, _)
\* the loop runs on, without waiting, over the items that carry no rcpNo:
\* they are pushed as unknown under mode all and dropped otherwise
skipNoRcpNo(items, i, classified, md) ==
  IF i > Len(items) \/ items[i].rcp # "" THEN [idx |-> i, classified |-> classified]
  ELSE skipNoRcpNo(items, i + 1,
                   IF md = "all"
                   THEN Append(classified, [items[i] EXCEPT !.offer_type = "unknown"])
                   ELSE classified,
                   md)

RECURSIVE classifyLoop(_, _, _, _)
\* for (const it of merged) { ... }: the loop of main over the merged records,
\* with the class classifyRcpNo gives each filing handed in
classifyLoop(items, types, md, out) ==
  IF items = <<>> THEN out
  ELSE LET it == Head(items)
           type == Head(types)
       IN classifyLoop(Tail(items), Tail(types), md,
            IF it.rcp = ""
            THEN (IF md = "all" THEN Append(out, [it EXCEPT !.offer_type = "unknown"])
                  ELSE out)
            ELSE IF modeKeeps(md, type) THEN Append(out, [it EXCEPT !.offer_type = type])
            ELSE out)

\* ------------------------------------------------------------ the page
\* what the fetch of ./data/ipo.json meets: a rejected fetch, a status that is
\* not ok, or a body; whether the body parses as JSON, its ok field, whether
\* its items field is an array, and the items
ItemLists == {<<>>, <<1>>, <<1, 2>>}
\* let lastData = null
Null == <<>>
Responses ==
  [status : {"network error", "http error", "ok"}, parses : BOOLEAN,
   ok : BOOLEAN, isArray : BOOLEAN, items : ItemLists]

\* loadData without the check of the items field
loadData_AnyItems(resp) ==
  IF resp.status # "ok" THEN [threw |-> TRUE, data |-> Null]
  ELSE IF ~resp.parses THEN [threw |-> TRUE, data |-> Null]
  ELSE IF ~resp.ok THEN [threw |-> TRUE, data |-> Null]
  ELSE [threw |-> FALSE,
        data |-> [ok |-> resp.ok, isArray |-> resp.isArray, items |-> resp.items]]

\* await fetch; if (!res.ok) throw; await res.json();
\* if (!data.ok || !Array.isArray(data.items)) throw; return data
loadData(resp) ==
  IF resp.status # "ok" THEN [threw |-> TRUE, data |-> Null]
  ELSE IF ~resp.parses THEN [threw |-> TRUE, data |-> Null]
  ELSE IF ~resp.ok \/ ~resp.isArray THEN [threw |-> TRUE, data |-> Null]
  ELSE [threw |-> FALSE,
        data |-> [ok |-> resp.ok, isArray |-> resp.isArray, items |-> resp.items]]

ExportButtons == {"dl-ics", "dl-rem", "run-shortcut"}

\* ================================================================== state
VARIABLES
  variant,     \* which rewrite of the pipeline runs
  args_mode,   \* args.mode: the --mode argument as given, or none (classify)
  mode,        \* the mode the run works under (classify)
  markets,     \* --markets (markets)
  start, end,  \* the requested window, ISO dates
  pageDays,    \* the day numbers the month pages of the run show
  pageNames,   \* the company names the link texts of the run show
  listedSet,   \* the listed-company names loaded for the run
  setSize,     \* set.size of every registry parsed, in order
  pc,          \* setup | months | classify | written | failed | hung
  months,      \* the month pages still to fetch
  all,         \* items gathered from the month pages (item variants)
  allEvents,   \* events gathered from the month pages (event variants)
  merged,      \* mergeEventsToItems(rangedEvents) (classify)
  idx,         \* the merged item whose filing is being fetched (classify)
  classified,  \* items pushed so far (classify)
  classify_debug,  \* one entry per filing classified (classify)
  feed,        \* the feed object written to the output file
  seen,        \* history: every sighting of every page fetched, in order
  calls,       \* history: the requests sent to the calendar source and the waits, in order
  mEvents, mItems, mDone,  \* mergeEventsToItems applied to a list on its own
  pIn, pOut, pDone,        \* a pure function applied to an input on its own
  tokens,      \* the tokens of a body text scanned on its own
  tokI,        \* i of the token loop, counted from 1
  curDay,      \* the day cursor of the token loop
  tokMap,      \* map of the token loop, in insertion order
  scanLog,     \* history: one entry per market code the loop stood on
  lastData,    \* lastData of the page: Null, or the feed of a load in a tuple
  reload_disabled,  \* $("reload").disabled
  reload_pc,   \* idle | loading: where reload() stands
  lastGood,    \* history: the feed of the last response that was fit to load
  reloads,     \* history: whether each reload() loaded its feed
  exports      \* history: one entry per click on an export button

vars == <<variant, args_mode, mode, markets, start, end, pageDays, pageNames, listedSet, setSize, pc, months, all, allEvents,
          merged, idx, classified, classify_debug, feed, seen, calls, mEvents, mItems, mDone,
          pIn, pOut, pDone, tokens, tokI, curDay, tokMap, scanLog,
          lastData, reload_disabled, reload_pc, lastGood, reloads, exports>>

config == <<variant, args_mode, mode, markets, start, end, pageDays, pageNames>>
mergeVars == <<mEvents, mItems, mDone>>
pureVars == <<pIn, pOut, pDone>>
scanVars == <<tokens, tokI, curDay, tokMap, scanLog>>
pageVars == <<lastData, reload_disabled, reload_pc, lastGood, reloads, exports>>
\* everything the pipeline run holds
runVars == <<config, listedSet, setSize, pc, months, all, allEvents, merged, idx, classified,
             classify_debug, feed, seen, calls>>

\* the page is not open
PageIdle ==
  /\ lastData = Null /\ reload_disabled = FALSE /\ reload_pc = "idle"
  /\ lastGood = Null /\ reloads = <<>> /\ exports = <<>>

\* no body text is being scanned on its own
ScanIdle ==
  /\ tokens = <<>> /\ tokI = 1 /\ curDay = NoDay /\ tokMap = <<>> /\ scanLog = <<>>

\* today (KST) for the variants whose window is today .. end of next month
Todays == {toISODate(2026, 3, 1), toISODate(2026, 3, 2)}
\* --start / --end
Windows == {<<toISODate(2026, 3, 1), toISODate(2026, 4, 30)>>,
            <<toISODate(2026, 3, 2), toISODate(2026, 3, 2)>>,
            <<toISODate(2026, 3, 2), toISODate(2026, 4, 2)>>}
MarketArgs == {Markets, {"G"}}

\* the state after the arguments are read: the pages show the day numbers of
\* days and the names of names, the clock is in todays, --start / --end are
\* in windows
InitWith(days, names, todays, windows) ==
  /\ variant \in Variants
  /\ pageDays = days
  /\ pageNames = names
  /\ args_mode \in (IF variant = "classify" THEN ModeArgs ELSE {NoModeArg})
  /\ mode = (IF variant = "classify" THEN modeOf(args_mode) ELSE "all")
  /\ markets \in (IF variant = "markets" THEN MarketArgs ELSE {Markets})
  /\ \E w \in (IF variant \in ItemVariants
               THEN {<<t, endOfNextMonth(t)>> : t \in todays} ELSE windows) :
       /\ start = w[1]
       /\ end = w[2]
       /\ months = monthsBetween(w[1], w[2])
  /\ listedSet = {}
  /\ setSize = <<>>
  /\ pc = IF variant \in ItemVariants THEN "setup" ELSE "months"
  /\ all = <<>>
  /\ allEvents = <<>>
  /\ merged = <<>>
  /\ idx = 1
  /\ classified = <<>>
  /\ classify_debug = <<>>
  /\ feed = NoFeed /\ calls = <<>>
  /\ seen = <<>>
  /\ mEvents = <<>>
  /\ mItems = <<>>
  /\ mDone = FALSE
  /\ pIn = <<>> /\ pOut = <<>> /\ pDone = FALSE
  /\ ScanIdle
  /\ PageIdle

Init == InitWith(Days, Names, Todays, Windows)

\* ---------------------------------------------------------------- actions
\* loadListedCorpNameSet parses the download: a set too small throws and
\* main() rejects, otherwise the set is the run's listedSet
LoadListed ==
  /\ pc = "setup"
  /\ \E n \in RegistrySizes : \E ls \in SUBSET Names :
       /\ Cardinality(ls) <= n
       /\ setSize' = Append(setSize, n)
       /\ IF tooSmall(n)
          THEN listedSet' = listedSet /\ pc' = "failed"
          ELSE listedSet' = ls /\ pc' = "months"
  /\ UNCHANGED <<config, calls, months, all, allEvents, merged, idx, classified, classify_debug, feed, seen,
                 mergeVars, pureVars, scanVars, pageVars>>

\* the registry download throws: main() rejects
LoadListedFails ==
  /\ pc = "setup"
  /\ pc' = "failed"
  /\ UNCHANGED <<config, calls, listedSet, setSize, months, all, allEvents, merged, idx, classified, classify_debug,
                 feed, seen, mergeVars, pureVars, scanVars, pageVars>>

\* the requests one month sends to the calendar source, and the waits around
\* them.  token, line: fetchBuffer(url).  rendered: page.goto(url), then
\* waitForTimeout(800).  The event variants: sleep(900), the GET, and the POST
\* when the fetch comes that far.
monthCalls(v, post) ==
  CASE v \in {"token", "line"} -> <<"GET">>
    [] v = "rendered" -> <<"GET", "sleep">>
    [] OTHER -> IF post THEN <<"sleep", "GET", "POST">> ELSE <<"sleep", "GET">>
\* whether a month that is fetched sends the POST: always after the bootstrap
\* GET, or only when the GET's page does not look like the calendar
postChoices(v) == IF v = "onlyGi" THEN BOOLEAN ELSE {TRUE}

seenOf(page, y, m) ==
  [i \in DOMAIN page |->
     [date |-> toISODate(y, m, page[i].day), ms |-> page[i].ms, name |-> page[i].name,
      which |-> page[i].which, rcp |-> page[i].rcp, rights |-> page[i].rights]]

\* one month of an item variant: fetch, parse, all.push(...monthItems)
FetchMonthItems ==
  /\ pc = "months" /\ variant \in ItemVariants /\ months # <<>>
  /\ \E page \in Pages(variant, MaxEvents - Len(seen), pageDays, pageNames) :
       LET y == Head(months).y
           m == Head(months).m
           monthItems == CASE variant = "token" -> parseDartCalendar(page, y, m)
                           [] variant = "line" -> parseDartCalendarLines(page, y, m)
                           [] OTHER -> parseDartCalendarFromTextAndHtml(page, y, m)
       IN /\ all' = all \o monthItems
          /\ seen' = seen \o seenOf(page, y, m)
  /\ months' = Tail(months)
  /\ calls' = calls \o monthCalls(variant, TRUE)
  /\ UNCHANGED <<config, listedSet, setSize, pc, allEvents, merged, idx, classified, classify_debug, feed,
                 mergeVars, pureVars, scanVars, pageVars>>

\* the month's fetch throws: nothing catches it in the item variants
FetchMonthItemsFails ==
  /\ pc = "months" /\ variant \in ItemVariants /\ months # <<>>
  /\ pc' = "failed"
  /\ calls' = calls \o <<"GET">>
  /\ UNCHANGED <<config, listedSet, setSize, months, all, allEvents, merged, idx, classified, classify_debug,
                 feed, seen, mergeVars, pureVars, scanVars, pageVars>>

\* one month of an event variant: fetch, parse, allEvents.push(...pm.events)
FetchMonthEvents ==
  /\ pc = "months" /\ variant \in EventVariants /\ months # <<>>
  /\ \E page \in Pages(variant, MaxEvents - Len(seen), pageDays, pageNames) :
       LET y == Head(months).y
           m == Head(months).m
       IN /\ allEvents' = allEvents \o parseCalendarMonth(variant, page, y, m)
          /\ seen' = seen \o seenOf(page, y, m)
  /\ months' = Tail(months)
  /\ \E post \in postChoices(variant) : calls' = calls \o monthCalls(variant, post)
  /\ UNCHANGED <<config, listedSet, setSize, pc, all, merged, idx, classified, classify_debug, feed, mergeVars, pureVars, scanVars, pageVars>>

\* the month's fetch throws: caught, recorded in _debug, the loop goes on
FetchMonthEventsFails ==
  /\ pc = "months" /\ variant \in EventVariants /\ months # <<>>
  /\ months' = Tail(months)
  /\ \E post \in BOOLEAN : calls' = calls \o monthCalls(variant, post)
  /\ UNCHANGED <<config, listedSet, setSize, pc, all, allEvents, merged, idx, classified, classify_debug, feed,
                 seen, mergeVars, pureVars, scanVars, pageVars>>

\* whether the fetches of the variant are armed with a timer: the
\* AbortController of fetchBuffer (part_002, update-ipo.mjs) and the timeout
\* of page.goto; fetch(url, { method, headers }) elsewhere has none
hasTimeout(v) == v \in {"line", "rendered"}

\* the server never answers the registry download: the timer aborts the fetch
\* and main() rejects, or the await never returns
LoadListedNoAnswer ==
  /\ pc = "setup"
  /\ pc' = IF hasTimeout(variant) THEN "failed" ELSE "hung"
  /\ UNCHANGED <<config, calls, listedSet, setSize, months, all, allEvents, merged, idx, classified,
                 classify_debug, feed, seen, mergeVars, pureVars, scanVars, pageVars>>

\* the server never answers a request of the month at the head of the loop
FetchMonthNoAnswer ==
  /\ pc = "months" /\ months # <<>>
  /\ pc' = IF hasTimeout(variant) THEN "failed" ELSE "hung"
  /\ \E post \in (IF variant \in EventVariants THEN BOOLEAN ELSE {FALSE}) :
       calls' = calls \o (IF variant \in ItemVariants THEN <<"GET">>
                          ELSE monthCalls(variant, post))
  /\ UNCHANGED <<config, listedSet, setSize, months, all, allEvents, merged, idx, classified,
                 classify_debug, feed, seen, mergeVars, pureVars, scanVars, pageVars>>

\* the server never answers a fetch of classifyRcpNo
ClassifyFilingNoAnswer ==
  /\ pc = "classify"
  /\ pc' = "hung"
  /\ UNCHANGED <<config, calls, listedSet, setSize, months, all, allEvents, merged, idx, classified,
                 classify_debug, feed, seen, mergeVars, pureVars, scanVars, pageVars>>

\* item variants, after the last month: filter, dedup, sort, write
FinishItems ==
  /\ pc = "months" /\ variant \in ItemVariants /\ months = <<>>
  /\ feed' = finishItems(variant, all, start, end, listedSet)
  /\ pc' = "written"
  /\ UNCHANGED <<config, calls, listedSet, setSize, months, all, allEvents, merged, idx, classified, classify_debug,
                 seen, mergeVars, pureVars, scanVars, pageVars>>

FinishOnlyGi ==
  /\ pc = "months" /\ variant = "onlyGi" /\ months = <<>>
  /\ feed' = finishOnlyGi(allEvents, start, end)
  /\ pc' = "written"
  /\ UNCHANGED <<config, calls, listedSet, setSize, months, all, allEvents, merged, idx, classified, classify_debug,
                 seen, mergeVars, pureVars, scanVars, pageVars>>

FinishMarkets ==
  /\ pc = "months" /\ variant = "markets" /\ months = <<>>
  /\ feed' = finishMarkets(allEvents, start, end, markets)
  /\ pc' = "written"
  /\ UNCHANGED <<config, calls, listedSet, setSize, months, all, allEvents, merged, idx, classified, classify_debug,
                 seen, mergeVars, pureVars, scanVars, pageVars>>

\* the loop over merged up to the next filing fetch, or to the written payload
runClassifyLoop(items, i, cl) ==
  LET adv == skipNoRcpNo(items, i, cl, mode)
  IN /\ idx' = adv.idx
     /\ classified' = adv.classified
     /\ IF adv.idx > Len(items)
        THEN feed' = payload(adv.classified) /\ pc' = "written"
        ELSE feed' = feed /\ pc' = "classify"

\* classify, after the last month: range filter, merge, start of the loop
MergeRanged ==
  /\ pc = "months" /\ variant = "classify" /\ months = <<>>
  /\ merged' = mergeEventsToItems(rangedEvents(allEvents, start, end))
  /\ runClassifyLoop(merged', 1, <<>>)
  /\ UNCHANGED <<config, calls, listedSet, setSize, months, all, allEvents, classify_debug, seen,
                 mergeVars, pureVars, scanVars, pageVars>>

\* the filings a run meets: one keyword of each list stands for its list
RunTexts ==
  {<<>>, <<OtherPhrase>>, <<"yusangjeungja">>, <<"gongmoga">>,
   <<"gongmoga", "yusangjeungja">>}
RunFilings == [fetch : {"ok", "throws"}, params : BOOLEAN, text : RunTexts]

\* try { cls = await classifyRcpNo(rcpNo) } catch { cls = unknown }, then the
\* mode filter, then the loop runs on
ClassifyFiling ==
  /\ pc = "classify"
  /\ \E f \in RunFilings :
       LET r == classifyRcpNo(f)
           type == IF r.threw THEN "unknown" ELSE r.type
           itemOut == [merged[idx] EXCEPT !.offer_type = type]
           cl == IF modeKeeps(mode, type) THEN Append(classified, itemOut) ELSE classified
       IN /\ classify_debug' =
               Append(classify_debug,
                      [corp_name |-> merged[idx].corp_name, rcpNo |-> merged[idx].rcp,
                       type |-> type, threw |-> r.threw])
          /\ runClassifyLoop(merged, idx + 1, cl)
  /\ UNCHANGED <<config, calls, listedSet, setSize, months, all, allEvents, merged, seen, mergeVars, pureVars, scanVars, pageVars>>

Next ==
  \/ LoadListed
  \/ LoadListedFails
  \/ FetchMonthItems
  \/ FetchMonthItemsFails
  \/ FetchMonthEvents
  \/ FetchMonthEventsFails
  \/ FinishItems
  \/ FinishOnlyGi
  \/ FinishMarkets
  \/ MergeRanged
  \/ ClassifyFiling
  \/ LoadListedNoAnswer
  \/ FetchMonthNoAnswer
  \/ ClassifyFilingNoAnswer

Spec == Init /\ [][Next]_vars

\* ------------------------------- a run over pages that show a day number 30
\* February 2026 has 28 days
LongDays == {1, 30}
InitDays ==
  InitWith(LongDays, Names, {toISODate(2026, 2, 1)},
           {<<toISODate(2026, 2, 1), toISODate(2026, 3, 2)>>})

SpecDays == InitDays /\ [][Next]_vars

\* ------------------- a run over pages with a link text that has no name
\* "<code> [<marker>]": the code, white space, the marker
BlankNames == {EmptyName, 1}
InitBlank ==
  InitWith({1, 2}, BlankNames, {toISODate(2026, 3, 1)},
           {<<toISODate(2026, 3, 1), toISODate(2026, 3, 2)>>})

SpecBlank == InitBlank /\ [][Next]_vars

\* ------------------------------------ mergeEventsToItems on a list of its own
MergeDates == {toISODate(2026, 3, d) : d \in Days}
MergeEventSet ==
  [date : MergeDates, market_short : Markets, corp_name : Names, mark : Marks,
   rcp : {""}]

InitMerge ==
  /\ variant = "classify" /\ args_mode = "all" /\ mode = "all" /\ markets = Markets
  /\ start = toISODate(2026, 3, 1) /\ end = toISODate(2026, 3, 1) /\ pageDays = Days /\ pageNames = Names
  /\ listedSet = {} /\ setSize = <<>> /\ pc = "merge" /\ months = <<>> /\ all = <<>>
  /\ allEvents = <<>> /\ merged = <<>> /\ idx = 1 /\ classified = <<>> /\ classify_debug = <<>>
  /\ feed = NoFeed /\ calls = <<>> /\ seen = <<>>
  /\ mEvents \in UNION {[1..n -> MergeEventSet] : n \in 0..MaxMergeEvents}
  /\ mItems = <<>>
  /\ mDone = FALSE
  /\ pIn = <<>> /\ pOut = <<>> /\ pDone = FALSE
  /\ ScanIdle
  /\ PageIdle

ApplyMerge ==
  /\ pc = "merge" /\ ~mDone
  /\ mItems' = mergeEventsToItems(mEvents)
  /\ mDone' = TRUE
  /\ UNCHANGED <<config, calls, listedSet, setSize, pc, months, all, allEvents, merged, idx, classified, classify_debug,
                 feed, seen, mEvents, pureVars, scanVars, pageVars>>

NextMerge == ApplyMerge

SpecMerge == InitMerge /\ [][NextMerge]_vars

\* ------------------------------------------- classifyRcpNo on a filing of its own
InitPure(inputs) ==
  /\ variant = "classify" /\ args_mode = "all" /\ mode = "all" /\ markets = Markets
  /\ start = toISODate(2026, 3, 1) /\ end = toISODate(2026, 3, 1) /\ pageDays = Days /\ pageNames = Names
  /\ listedSet = {} /\ setSize = <<>> /\ pc = "pure" /\ months = <<>> /\ all = <<>>
  /\ allEvents = <<>> /\ merged = <<>> /\ idx = 1 /\ classified = <<>> /\ classify_debug = <<>>
  /\ feed = NoFeed /\ calls = <<>> /\ seen = <<>>
  /\ mEvents = <<>> /\ mItems = <<>> /\ mDone = FALSE
  /\ pIn \in inputs
  /\ pOut = <<>>
  /\ pDone = FALSE
  /\ ScanIdle
  /\ PageIdle

InitClassify == InitPure(Filings(Phrases, MaxPhrases))

ApplyClassify ==
  /\ pc = "pure" /\ ~pDone
  /\ pOut' = classifyRcpNo(pIn)
  /\ pDone' = TRUE
  /\ UNCHANGED <<runVars, mergeVars, pIn, scanVars, pageVars>>

NextClassify == ApplyClassify

SpecClassify == InitClassify /\ [][NextClassify]_vars

\* ---------------------------------- pickBestDecodedHTML on a buffer of its own
InitDecode == InitPure([buffer : Buffers, headerCS : Charsets])

ApplyDecode ==
  /\ pc = "pure" /\ ~pDone
  /\ pOut' = pickBestDecodedHTML(pIn.buffer, pIn.headerCS)
  /\ pDone' = TRUE
  /\ UNCHANGED <<runVars, mergeVars, pIn, scanVars, pageVars>>

NextDecode == ApplyDecode

SpecDecode == InitDecode /\ [][NextDecode]_vars

\* ------------------------- uniqByCompanyKeepEarliest on a list of its own
\* records of the list: the ends tell records of one name and one start apart
UniqItemSet ==
  [corp_name : Names, market_short : {"K"},
   sbd_start : {NoDate, toISODate(2026, 3, 1), toISODate(2026, 3, 2)},
   sbd_end : {toISODate(2026, 3, 2), toISODate(2026, 3, 3)},
   rcp : {""}, offer_type : {""}]

InitUniq == InitPure(UNION {[1..n -> UniqItemSet] : n \in 0..MaxUniqItems})

ApplyUniq ==
  /\ pc = "pure" /\ ~pDone
  /\ pOut' = uniqByCompanyKeepEarliest(pIn)
  /\ pDone' = TRUE
  /\ UNCHANGED <<runVars, mergeVars, pIn, scanVars, pageVars>>

NextUniq == ApplyUniq

SpecUniq == InitUniq /\ [][NextUniq]_vars

\* ---------------- the classification loop under each mode, on one merged list
Types == {"ipo", "rights", "unknown"}
\* a merged record and the class its filing gets
ModeEntries ==
  [it : [corp_name : Names, market_short : Markets,
         sbd_start : {toISODate(2026, 3, 1)}, sbd_end : {toISODate(2026, 3, 2)},
         rcp : RcpNos, offer_type : {""}],
   type : Types]
\* merged holds one record per market code and company name
DistinctKeys(es) ==
  \A a, b \in DOMAIN es :
    a # b => <<es[a].it.market_short, es[a].it.corp_name>>
             # <<es[b].it.market_short, es[b].it.corp_name>>
ModeInputs ==
  {es \in UNION {[1..n -> ModeEntries] : n \in 0..MaxModeItems} : DistinctKeys(es)}

InitModes == InitPure(ModeInputs)

ApplyModes ==
  /\ pc = "pure" /\ ~pDone
  /\ pOut' = [md \in Modes |->
                classifyLoop([k \in DOMAIN pIn |-> pIn[k].it],
                             [k \in DOMAIN pIn |-> pIn[k].type], md, <<>>)]
  /\ pDone' = TRUE
  /\ UNCHANGED <<runVars, mergeVars, pIn, scanVars, pageVars>>

NextModes == ApplyModes

SpecModes == InitModes /\ [][NextModes]_vars

\* ------------------------------------ the token loop on a body text of its own
InitTokens ==
  /\ variant = "token" /\ args_mode = NoModeArg /\ mode = "all" /\ markets = Markets
  /\ start = toISODate(2026, 3, 1) /\ end = toISODate(2026, 3, 1) /\ pageDays = Days /\ pageNames = Names
  /\ listedSet = {} /\ setSize = <<>> /\ pc = "scan" /\ months = <<>> /\ all = <<>>
  /\ allEvents = <<>> /\ merged = <<>> /\ idx = 1 /\ classified = <<>> /\ classify_debug = <<>>
  /\ feed = NoFeed /\ calls = <<>> /\ seen = <<>>
  /\ mEvents = <<>> /\ mItems = <<>> /\ mDone = FALSE
  /\ pIn = <<>> /\ pOut = <<>> /\ pDone = FALSE
  /\ tokens \in TokenStreams(MaxPieces)
  /\ tokI = 1 /\ curDay = NoDay /\ tokMap = <<>> /\ scanLog = <<>>
  /\ PageIdle

\* the token is the first of a day marker: curDay = d; i += 1; continue
ScanDayMarker ==
  /\ pc = "scan" /\ tokI <= Len(tokens)
  /\ dayMarkerAt(tokens, tokI)
  /\ curDay' = Number(tokens[tokI])
  /\ tokI' = tokI + 2
  /\ UNCHANGED <<runVars, mergeVars, pureVars, pageVars, tokens, tokMap, scanLog>>

\* the token is a market code: name scan, record, i = j, then the loop's i++
ScanCode ==
  /\ pc = "scan" /\ tokI <= Len(tokens)
  /\ ~dayMarkerAt(tokens, tokI)
  /\ tokens[tokI] = CodeToken
  /\ LET r == scanCode(tokens, tokI, curDay, tokMap)
     IN /\ tokMap' = r.map
        /\ tokI' = r.j + 1
        /\ scanLog' = Append(scanLog, [pos |-> tokI, j |-> r.j, day |-> curDay,
                                       filed |-> r.filed])
  /\ UNCHANGED <<runVars, mergeVars, pureVars, pageVars, tokens, curDay>>

\* any other token: the loop's i++
ScanOther ==
  /\ pc = "scan" /\ tokI <= Len(tokens)
  /\ ~dayMarkerAt(tokens, tokI)
  /\ tokens[tokI] # CodeToken
  /\ tokI' = tokI + 1
  /\ UNCHANGED <<runVars, mergeVars, pureVars, pageVars, tokens, curDay, tokMap, scanLog>>

NextTokens == ScanDayMarker \/ ScanCode \/ ScanOther

SpecTokens == InitTokens /\ [][NextTokens]_vars

\* ---------------------------------------------------------------- the page
InitPage ==
  /\ variant = "token" /\ args_mode = NoModeArg /\ mode = "all" /\ markets = Markets
  /\ start = toISODate(2026, 3, 1) /\ end = toISODate(2026, 3, 1) /\ pageDays = Days /\ pageNames = Names
  /\ listedSet = {} /\ setSize = <<>> /\ pc = "page" /\ months = <<>> /\ all = <<>>
  /\ allEvents = <<>> /\ merged = <<>> /\ idx = 1 /\ classified = <<>> /\ classify_debug = <<>>
  /\ feed = NoFeed /\ calls = <<>> /\ seen = <<>>
  /\ mEvents = <<>> /\ mItems = <<>> /\ mDone = FALSE
  /\ pIn = <<>> /\ pOut = <<>> /\ pDone = FALSE
  /\ ScanIdle
  /\ PageIdle

\* a click on the reload button, which a disabled button does not take:
\* reload() disables the button and awaits loadData()
ClickReload ==
  /\ pc = "page" /\ ~reload_disabled /\ Len(reloads) < MaxReloads
  /\ reload_disabled' = TRUE
  /\ reload_pc' = "loading"
  /\ UNCHANGED <<runVars, mergeVars, pureVars, scanVars, lastData, lastGood, reloads, exports>>

\* loadData() returns or throws: lastData = data; render, or alert in the
\* catch; the finally enables the button
ReloadReturns ==
  /\ pc = "page" /\ reload_pc = "loading"
  /\ \E resp \in Responses :
       LET r == loadData(resp)
           fit == resp.status = "ok" /\ resp.parses /\ resp.ok /\ resp.isArray
       IN /\ lastData' = IF r.threw THEN lastData ELSE <<r.data>>
          /\ reloads' = Append(reloads, ~r.threw)
          /\ lastGood' = IF fit
                         THEN <<[ok |-> resp.ok, isArray |-> resp.isArray, items |-> resp.items]>>
                         ELSE lastGood
  /\ reload_disabled' = FALSE
  /\ reload_pc' = "idle"
  /\ UNCHANGED <<runVars, mergeVars, pureVars, scanVars, exports>>

\* a click on an export button: if (!lastData) return alert(...); else the
\* ICS file, the reminders text or the shortcut URL built from lastData.items
ClickExport ==
  /\ pc = "page" /\ Len(exports) < MaxExports
  /\ \E b \in ExportButtons :
       exports' = Append(exports,
                         [button |-> b, refused |-> lastData = Null,
                          items |-> IF lastData = Null THEN <<>> ELSE lastData[1].items,
                          good |-> lastGood])
  /\ UNCHANGED <<runVars, mergeVars, pureVars, scanVars, lastData, reload_disabled, reload_pc,
                 lastGood, reloads>>

NextPage == ClickReload \/ ReloadReturns \/ ClickExport

SpecPage == InitPage /\ [][NextPage]_vars

\* ================================================================= claims
Written == pc = "written"
\* the sightings the extractor files (a rendered line that looks like a rights
\* issue is skipped before the pattern is tried)
Filed(n) == {i \in DOMAIN seen : seen[i].name = n /\ ~seen[i].rights}
FeedItemsOf(n) == {i \in DOMAIN feed.items : feed.items[i].corp_name = n}
InWindow(d) == d >= start /\ d <= end
\* no filter other than the date range is against company n
NoOtherFilter(n) ==
  /\ n \notin listedSet
  /\ variant = "classify" => mode = "all"
  /\ variant = "onlyGi" => \A i \in Filed(n) : seen[i].ms = "G"
  /\ variant = "markets" => \A i \in Filed(n) : seen[i].ms \in markets
OneSided(n) ==
  /\ Filed(n) # {}
  /\ \A i, j \in Filed(n) : seen[i].which = seen[j].which

\* C1: every record mergeEventsToItems returns starts on the earliest date of
\* its START events and ends on the latest date of its END events, whatever
\* the order the events arrive in.
C1_MergeMinMax ==
  mDone =>
    \A i \in DOMAIN mItems :
      LET it == mItems[i]
          mine(mk) == {mEvents[k].date : k \in
                         {k \in DOMAIN mEvents :
                            /\ mEvents[k].corp_name = it.corp_name
                            /\ mEvents[k].market_short = it.market_short
                            /\ mEvents[k].mark = mk}}
      IN /\ mine("start") # {} => it.sbd_start = MinOf(mine("start"))
         /\ mine("end") # {} => it.sbd_end = MaxOf(mine("end"))

\* C1 witness: a record merged from two START events that arrived latest first,
\* and from an END event
C1_Witness ==
  /\ mDone
  /\ \E a, b, c \in DOMAIN mEvents :
       /\ a < b
       /\ mEvents[a].mark = "start" /\ mEvents[b].mark = "start"
       /\ mEvents[c].mark = "end"
       /\ mEvents[a].corp_name = mEvents[b].corp_name
       /\ mEvents[a].corp_name = mEvents[c].corp_name
       /\ mEvents[a].market_short = mEvents[b].market_short
       /\ mEvents[a].market_short = mEvents[c].market_short
       /\ mEvents[a].date > mEvents[b].date
       /\ \E i \in DOMAIN mItems : mItems[i].sbd_start = mEvents[b].date

\* C2: a company with its START sighting on one month's page and its END
\* sighting on a later month's page, both inside the window, is one feed item
\* running from the START date to the END date.
C2_CrossMonthSpan ==
  Written =>
    \A n \in Names : \A i, j \in Filed(n) :
      ( /\ Filed(n) = {i, j}
        /\ seen[i].which = "start" /\ seen[j].which = "end"
        /\ seen[i].ms = seen[j].ms
        /\ MonthOf(seen[i].date) < MonthOf(seen[j].date)
        /\ InWindow(seen[i].date) /\ InWindow(seen[j].date)
        /\ NoOtherFilter(n) )
      => /\ Cardinality(FeedItemsOf(n)) = 1
         /\ \A k \in FeedItemsOf(n) :
              /\ feed.items[k].sbd_start = seen[i].date
              /\ feed.items[k].sbd_end = seen[j].date

\* C3: a company with sightings of one kind only (START only, or END only),
\* all inside the window, that no other filter excludes, is in the feed with
\* sbd_end equal to sbd_start.
C3_OneSidedImputed ==
  Written =>
    \A n \in Names :
      ( /\ OneSided(n)
        /\ \A i \in Filed(n) : InWindow(seen[i].date)
        /\ NoOtherFilter(n) )
      => \E k \in FeedItemsOf(n) :
           /\ feed.items[k].sbd_start # NoDate
           /\ feed.items[k].sbd_end = feed.items[k].sbd_start

\* C4: every item of the written feed has both sbd_start and sbd_end set, in
\* every variant.
C4_BothDatesPopulated ==
  Written =>
    \A k \in DOMAIN feed.items :
      feed.items[k].sbd_start # NoDate /\ feed.items[k].sbd_end # NoDate

\* C4 witness: a written feed holding a company that was sighted with one kind
\* of boundary only
C4_Witness ==
  /\ Written
  /\ \E n \in Names : OneSided(n) /\ FeedItemsOf(n) # {}

\* C5: no two items of the written feed share a corp_name, also when the
\* company's sightings carry different market codes.
C5_UniqueCorpName ==
  Written =>
    \A i, j \in DOMAIN feed.items :
      i # j => feed.items[i].corp_name # feed.items[j].corp_name

\* C6: a record is in the feed if and only if the interval from its START
\* sighting to its END sighting overlaps the window (end >= window start and
\* start <= window end).  Stated for a company sighted exactly twice on one
\* fetched page, START no later than END, with no other filter against it.
C6_KeptIffOverlap ==
  Written =>
    \A n \in Names : \A i, j \in Filed(n) :
      ( /\ Filed(n) = {i, j}
        /\ seen[i].which = "start" /\ seen[j].which = "end"
        /\ seen[i].ms = seen[j].ms
        /\ MonthOf(seen[i].date) = MonthOf(seen[j].date)
        /\ seen[i].date <= seen[j].date
        /\ NoOtherFilter(n) )
      => ( FeedItemsOf(n) # {}
           <=> (seen[j].date >= start /\ seen[i].date <= end) )

\* C7: the items of the written feed are in ascending order of sbd_start and,
\* where sbd_start is equal, in ascending order of corp_name.
C7_SortedByStartThenName ==
  Written =>
    \A i, j \in DOMAIN feed.items :
      i < j =>
        \/ feed.items[i].sbd_start < feed.items[j].sbd_start
        \/ /\ feed.items[i].sbd_start = feed.items[j].sbd_start
           /\ feed.items[i].corp_name <= feed.items[j].corp_name

\* C8: count equals the number of items in every written feed, whatever the
\* mode and the filters.
C8_CountIsLength == Written => feed.count = Len(feed.items)

\* C8 witness: a written feed with an item, after a filter removed a company
C8_Witness ==
  /\ Written
  /\ feed.items # <<>>
  /\ \E n \in Names : Filed(n) # {} /\ FeedItemsOf(n) = {}

\* C9: no item of the written feed is named by the listed-company set loaded
\* for the run.
C9_NoListedInFeed ==
  Written => \A k \in DOMAIN feed.items : feed.items[k].corp_name \notin listedSet

\* C9 witness: a written feed with an item, in a run that sighted a listed
\* company inside the window
C9_Witness ==
  /\ Written
  /\ feed.items # <<>>
  /\ \E n \in listedSet : \E i \in Filed(n) : InWindow(seen[i].date)

\* the gathered records that pass the range filter: both dates, and overlap
SurvivesRange(it) ==
  /\ it.sbd_start # NoDate /\ it.sbd_end # NoDate
  /\ it.sbd_end >= start /\ it.sbd_start <= end

\* the variants whose payload carries an excluded_listed field
WritesExcludedListed == variant \in ItemVariants \cup {"onlyGi"}

\* C10: excluded_listed is exactly the number of gathered records removed for
\* being named in the listed set: records the range filter removed, and records
\* the dedup removed, are not counted.  A run that loads no listed set removes
\* no record for being named in it.
C10_ExcludedListedExact ==
  (Written /\ WritesExcludedListed) =>
    feed.excluded_listed =
      Cardinality({i \in DOMAIN all :
                     SurvivesRange(all[i]) /\ all[i].corp_name \in listedSet})

\* C11: on every filing text, classifyRcpNo answers rights when the text holds
\* a rights-issue keyword (with or without a new-listing keyword), ipo when it
\* holds no rights-issue keyword and a new-listing keyword, unknown otherwise.
C11_ClassifyByKeywords ==
  (pDone /\ pIn.fetch = "ok" /\ pIn.params) =>
    LET words == Range(pIn.text)
        rights == words \cap RIGHTS_KEYWORDS # {}
        ipo == words \cap IPO_KEYWORDS # {}
    IN /\ ~pOut.threw
       /\ rights => pOut.type = "rights"
       /\ (~rights /\ ipo) => pOut.type = "ipo"
       /\ (~rights /\ ~ipo) => pOut.type = "unknown"

\* C11 witness: a text with a new-listing keyword ahead of a rights-issue
\* keyword was classified rights
C11_Witness ==
  /\ pDone /\ pIn.fetch = "ok" /\ pIn.params
  /\ Len(pIn.text) = 2
  /\ pIn.text[1] \in IPO_KEYWORDS /\ pIn.text[2] \in RIGHTS_KEYWORDS
  /\ pOut.type = "rights"

\* the merged records without a filing reference
NoReference == {i \in DOMAIN merged : merged[i].rcp = ""}
\* the feed holds the merged record i, classified unknown
KeptUnknown(i) ==
  \E k \in DOMAIN feed.items :
    /\ feed.items[k].corp_name = merged[i].corp_name
    /\ feed.items[k].market_short = merged[i].market_short
    /\ feed.items[k].offer_type = "unknown"
\* the merged record whose filing the n-th entry of classify_debug is about
RecordOf(n) ==
  LET withRef == {i \in DOMAIN merged : merged[i].rcp # ""}
  IN CHOOSE i \in withRef : Cardinality({j \in withRef : j <= i}) = n
\* every merged record with a filing reference went through classifyRcpNo
AllClassified ==
  Len(classify_debug) = Cardinality(DOMAIN merged \ NoReference)

C13_NoRightsInFeed ==
  Written => \A k \in DOMAIN feed.items : feed.items[k].offer_type # "rights"

\* C13 as amended: unless the run is under mode all, no item of the written
\* feed is a record classified as a rights issue.
C13_NoRightsUnlessModeAll ==
  (Written /\ ~(variant = "classify" /\ mode = "all")) =>
    \A k \in DOMAIN feed.items : feed.items[k].offer_type # "rights"

\* C13 witness: a run under mode exrights classified a filing as a rights
\* issue and wrote a feed that holds another record
C13_Witness ==
  /\ Written /\ variant = "classify" /\ mode = "exrights"
  /\ \E n \in DOMAIN classify_debug : classify_debug[n].type = "rights"
  /\ feed.items # <<>>

C15_MonthFailureTolerated ==
  [][(pc = "months" /\ months # <<>>) => (pc' = "months" /\ months' = Tail(months))]_vars

\* C16: a registry that parses to fewer than 500 names aborts the run: the
\* run has failed and no feed is written.
C16_SmallRegistryAborts ==
  \A i \in DOMAIN setSize : setSize[i] < 500 => (pc = "failed" /\ feed = NoFeed)

\* C16 witness: a registry of 499 names was parsed, and the run has failed
C16_Witness == setSize = <<499>> /\ pc = "failed"

\* a date of the calendar: its day is a day of its month
RealDate(iso) == iso % 100 \in 1..DaysInMonth(YearOf(iso), MonthOf(iso))

\* C17: every sbd_start and sbd_end of a feed item is a real calendar date of
\* the scraped month: its day is no later than the month's last day.
C17_RealCalendarDates ==
  Written =>
    \A k \in DOMAIN feed.items :
      RealDate(feed.items[k].sbd_start) /\ RealDate(feed.items[k].sbd_end)

\* C18: every feed item has a non-empty corp_name: a link or line text made of
\* a market code, white space at most, and the boundary marker gives no event
\* and no item.
C18_NonEmptyCorpName ==
  Written => \A k \in DOMAIN feed.items : feed.items[k].corp_name # EmptyName

\* the encoding the header declares, UTF-8 when it declares none or another
Declared(cs) ==
  IF cs \in {"euc-kr", "ks_c_5601-1987", "ksc5601"} THEN "euc-kr" ELSE "utf-8"
Other(enc) == IF enc = "euc-kr" THEN "utf-8" ELSE "euc-kr"
CountOf(buffer, enc) == IF enc = "euc-kr" THEN buffer.euckr ELSE buffer.utf8

\* C19: pickBestDecodedHTML returns the alternate decoding only when its count
\* of event patterns is strictly higher than the count of the declared (or
\* default) decoding; on equal counts, zero included, it returns the declared
\* one, UTF-8 when no charset is declared.
C19_TiesFavorDeclared ==
  pDone =>
    LET dec == Declared(pIn.headerCS)
    IN /\ pOut.html # dec =>
            CountOf(pIn.buffer, Other(dec)) > CountOf(pIn.buffer, dec)
       /\ CountOf(pIn.buffer, Other(dec)) = CountOf(pIn.buffer, dec) =>
            pOut.html = dec
       /\ pOut.score = CountOf(pIn.buffer, pOut.html)

\* C19 witness: a buffer with as many patterns under both encodings, more than
\* none, came back in the declared EUC-KR
C19_Witness ==
  /\ pDone /\ pIn.headerCS = "euc-kr"
  /\ pIn.buffer.utf8 = pIn.buffer.euckr /\ pIn.buffer.utf8 > 0
  /\ pOut.html = "euc-kr"

\* C20: whatever charset the header declares, a buffer that shows event
\* patterns under one of the two encodings only comes back decoded with that
\* encoding.
C20_HintNeverDecides ==
  pDone =>
    /\ (pIn.buffer.utf8 > 0 /\ pIn.buffer.euckr = 0) => pOut.html = "utf-8"
    /\ (pIn.buffer.euckr > 0 /\ pIn.buffer.utf8 = 0) => pOut.html = "euc-kr"

\* the day of the last day marker of the text ahead of position p
LastMarkerDay(toks, p) ==
  LET ps == {q \in 1..(p - 1) : dayMarkerAt(toks, q)}
  IN IF ps = {} THEN NoDay ELSE Number(toks[MaxOf(ps)])

\* C21: every sighting the token scan files is dated with the day of the most
\* recent day marker ahead of its market code, also when the sighting follows
\* an incomplete event whose name scan stopped at a day marker.
C21_DatedByLastMarker ==
  \A n \in DOMAIN scanLog :
    scanLog[n].filed => scanLog[n].day = LastMarkerDay(tokens, scanLog[n].pos)

\* the boundary words and day patterns of the text behind position p
BoundaryAfter(toks, p) == {q \in (p + 1)..Len(toks) : toks[q] \in {StartToken, EndToken}}
DayAfter(toks, p) == {q \in (p + 1)..Len(toks) : dayPatternAt(toks, q)}
\* the market code at p meets a day marker, or the end of the text, before any
\* boundary word
Incomplete(toks, p) ==
  \/ BoundaryAfter(toks, p) = {}
  \/ DayAfter(toks, p) # {} /\ MinOf(DayAfter(toks, p)) < MinOf(BoundaryAfter(toks, p))

\* C22: the loop body at a market code that meets the next day marker, or the
\* end of the text, before any boundary word files no sighting and leaves the
\* map of records as it was.
C22_IncompleteDiscarded ==
  [][(pc = "scan" /\ tokI <= Len(tokens) /\ ~dayMarkerAt(tokens, tokI)
      /\ tokens[tokI] = CodeToken /\ Incomplete(tokens, tokI))
     => (tokMap' = tokMap /\ scanLog' # scanLog /\ ~scanLog'[Len(scanLog')].filed)]_vars

\* C22 witness: the scan is over, it filed a record, and the market code after
\* that met a day marker before any boundary word
C22_Witness ==
  /\ pc = "scan" /\ tokI > Len(tokens)
  /\ tokMap # <<>>
  /\ \E n \in DOMAIN scanLog :
       /\ n > 1 /\ scanLog[n - 1].filed
       /\ ~scanLog[n].filed
       /\ scanLog[n].j <= Len(tokens) /\ dayPatternAt(tokens, scanLog[n].j)

\* C23: in the extractors that fold sightings straight into per-company
\* records, a company sighted twice with START on different days of one month
\* has the earlier day as the sbd_start of its record of that month, and one
\* sighted twice with END has the later day as sbd_end, in whichever order the
\* two sightings stand on the page.
C23_FoldKeepsExtremes ==
  variant \in ItemVariants =>
    \A n \in Names : \A a, b \in Filed(n) :
      ( /\ Filed(n) = {a, b} /\ a # b
        /\ seen[a].which = seen[b].which
        /\ MonthOf(seen[a].date) = MonthOf(seen[b].date) )
      => \A k \in DOMAIN all :
           all[k].corp_name = n =>
             IF seen[a].which = "start"
             THEN all[k].sbd_start = MinOf({seen[a].date, seen[b].date})
             ELSE all[k].sbd_end = MaxOf({seen[a].date, seen[b].date})

\* the start a record is compared by: a record without a start is the latest
StartRank(it) == IF it.sbd_start = NoDate THEN 99990000 ELSE it.sbd_start
\* the first record of name n in the list that no record of n starts before
EarliestOf(items, n) ==
  LET mine == {k \in DOMAIN items : items[k].corp_name = n}
      best == {k \in mine : \A z \in mine : StartRank(items[k]) <= StartRank(items[z])}
  IN items[MinOf(best)]

\* C24: uniqByCompanyKeepEarliest returns exactly one record for every
\* corp_name of its input, and it is the input record of that name with the
\* smallest sbd_start, a record without a start counting as the latest and the
\* first seen being kept among equal starts.
C24_OnePerNameEarliest ==
  pDone =>
    LET names == {pIn[k].corp_name : k \in DOMAIN pIn}
    IN /\ {pOut[k].corp_name : k \in DOMAIN pOut} = names
       /\ Len(pOut) = Cardinality(names)
       /\ \A k \in DOMAIN pOut : pOut[k] = EarliestOf(pIn, pOut[k].corp_name)

\* C24 witness: a list of three records of one company, the first without a
\* start, the other two with the same start, came back as the second record
C24_Witness ==
  /\ pDone /\ Len(pIn) = 3
  /\ pIn[1].corp_name = pIn[2].corp_name /\ pIn[2].corp_name = pIn[3].corp_name
  /\ pIn[1].sbd_start = NoDate
  /\ pIn[2].sbd_start # NoDate /\ pIn[3].sbd_start = pIn[2].sbd_start
  /\ pIn[2].sbd_end # pIn[3].sbd_end
  /\ pOut = <<pIn[2]>>

\* C25: within one run the filing of a reference is fetched and classified at
\* most once: no two entries of classify_debug, one per call of classifyRcpNo,
\* carry the same rcpNo.
C25_OneFetchPerReference ==
  \A a, b \in DOMAIN classify_debug :
    a # b => classify_debug[a].rcpNo # classify_debug[b].rcpNo

Requests == {"GET", "POST"}

\* C26: a delay lies between any two successive requests to the calendar
\* source: the bootstrap GET and the POST of one month, and the requests of
\* consecutive months, are never sent back to back.
C26_DelayBetweenRequests ==
  \A k \in DOMAIN calls :
    (k < Len(calls) /\ calls[k] \in Requests) => calls[k + 1] \notin Requests

\* C27: every fetch of a run is bounded by a timeout: a request the server
\* never answers fails, and the run goes on to write a feed or to exit
\* non-zero; it is never left waiting in a fetch for ever.
C27_NoFetchWaitsForEver == pc # "hung"

\* C28: for the same merged records and the same classes, the items written
\* under mode ipo are among those written under mode exrights, those are among
\* the items written under mode all, and mode all writes every merged record.
C28_ModeOnlyNarrows ==
  pDone =>
    /\ Range(pOut["ipo"]) \subseteq Range(pOut["exrights"])
    /\ Range(pOut["exrights"]) \subseteq Range(pOut["all"])
    /\ Len(pOut["all"]) = Len(pIn)
    /\ \A k \in DOMAIN pIn :
         /\ pOut["all"][k].corp_name = pIn[k].it.corp_name
         /\ pOut["all"][k].market_short = pIn[k].it.market_short

\* C28 witness: a list with a filing of each class, where each mode wrote more
\* than the one before
C28_Witness ==
  /\ pDone /\ Len(pIn) = 3
  /\ \A k \in DOMAIN pIn : pIn[k].it.rcp # ""
  /\ {pIn[k].type : k \in DOMAIN pIn} = Types
  /\ Len(pOut["ipo"]) = 1 /\ Len(pOut["exrights"]) = 2 /\ Len(pOut["all"]) = 3

\* the variants whose payload carries an excluded_non_ipo field
WritesExcludedNonIpo == variant \in {"line", "rendered"}
\* the companies left out because every line they were sighted on, inside the
\* window, looked like a rights issue
RightsExcluded ==
  {n \in Names \ listedSet :
     /\ Filed(n) = {}
     /\ \E k \in DOMAIN seen : seen[k].name = n /\ seen[k].rights /\ InWindow(seen[k].date)}

\* C29: excluded_non_ipo is the number of candidate offerings left out of
\* items because they were judged to be rights issues.
C29_ExcludedNonIpoCounts ==
  (Written /\ WritesExcludedNonIpo) =>
    feed.excluded_non_ipo = Cardinality(RightsExcluded)

\* C30: a failed load leaves lastData as it was: lastData is the feed of the
\* most recent load that succeeded, every export is built from that feed and
\* is refused while no load has succeeded, and the reload button is enabled
\* whenever no reload is under way.
C30_ExportsUseLastGoodLoad ==
  /\ lastData = lastGood
  /\ \A n \in DOMAIN exports :
       IF exports[n].good = Null THEN exports[n].refused
       ELSE ~exports[n].refused /\ exports[n].items = exports[n].good[1].items
  /\ reload_pc = "idle" => ~reload_disabled

\* C30 witness: a load succeeded, the next one failed, the button is enabled
\* again, and an export after that was built from the feed of the first load
C30_Witness ==
  /\ reloads = <<TRUE, FALSE>>
  /\ reload_pc = "idle" /\ ~reload_disabled
  /\ lastData # Null /\ lastData[1].items # <<>>
  /\ exports # <<>>
  /\ ~exports[Len(exports)].refused
  /\ exports[Len(exports)].items = lastData[1].items

====
